---- MODULE Spec2Model ----
(***************************************************************************)
(* face-detection-server: the upload handler (producers), the lock-guarded *)
(* image queue, the polling queue processor (the single consumer) and the  *)
(* post-processing of the detector output.                                 *)
(*                                                                         *)
(* Spec is the server.  SpecRemap, SpecPost and SpecIou take functions of   *)
(* ultra_predictor.rs on their own: the arguments are drawn in the initial *)
(* state and a step calls the function on them.  Arithmetic is exact: the  *)
(* rounding of f32 is not modelled.                                        *)
(*                                                                         *)
(* Numbers: a confidence is an integer number of hundredths (51 is 0.51)   *)
(* or NaN; a normalized box coordinate is an integer number of 1/GRID.     *)
(***************************************************************************)
EXTENDS Integers, Sequences, FiniteSets, TLC

\* ------------------------------------------------------------------ bounds
\* Jobs ever given an id in one run of the model.
MaxJobs == 3
\* image_queue.rs QUEUE_SIZE (10000 in the source), scaled down so that the
\* boundary len = QUEUE_SIZE and len = QUEUE_SIZE + 1 is reached.
QUEUE_SIZE == 1
\* Candidates in a detector reply given to post_process on its own.
MaxCands == 3
\* Largest coordinate (in units of 1/GRID) of the boxes given to iou on its own.
MaxCoord == 2

Producers == {"p1", "p2"}
JobIds == 1..MaxJobs

\* ------------------------------------------------------------- variables
VARIABLES
    queue,      \* ImageQueue.queue: the Vec<QueueItem> behind the Mutex
    lock,       \* holder of the queue Mutex: "free", "sched"
    nextId,     \* the next unused job id (Uuid::new_v4 yields a fresh id)
    pcP,        \* per upload worker: where add_to_queue stands: "idle", "keep", "push"
    idP,        \* per upload worker: the id push() generated, 0 if none
    seenLen,    \* per upload worker: the length the is_full() of its request read; -1
                \* if it made no call, and again once the request got past is_full
    retP,       \* per upload worker: what that is_full() returned: "none", "true", "false"
    resp,       \* per upload worker: the HTTP status its last request got, "none"
                \* before the first and while a request is under way
    pcS,        \* process_queue_task: "tick", "draining", "loop", "panicked"
    batch,      \* the Vec<QueueItem> drain() is collecting / the for loop iterates
    alive,      \* FALSE once process::exit was called
    staged,     \* ids of the jobs whose temp file exists
    results,    \* ids of the jobs for which ./results/<id>.json exists
    last,       \* history: the item the for loop handled last, how it ended, the
                \* detector reply and run's result, and the items left after it
    admitted,   \* history: ids in the order push() appended them
    snap,       \* history: while drain() runs, the queue as it was when it took the lock
    drainCount, \* history: per job id, the number of drains that returned it
    procCount,  \* history: per job id, the number of loop bodies entered for it
    rmCalled,   \* history: per job id, whether remove_temp_file was called on it
    procLog,    \* history: ids in the order the for loop took them
    midDrain,   \* history: TRUE once is_full or push ran inside a drain
    calc        \* one call of a function of ultra_predictor.rs taken on its own:
                \* its arguments, how far it got and what it returned; the
                \* server itself never touches it

sysVars == <<queue, lock, nextId, pcP, idP, seenLen, retP, resp, pcS, batch, alive,
             staged, results, last, admitted, snap, drainCount, procCount, rmCalled,
             procLog, midDrain>>

vars == <<sysVars, calc>>

prodVars == <<pcP, idP, seenLen, retP, resp>>
schedVars == <<pcS, batch, last, snap, drainCount, procCount, rmCalled, results, procLog>>


\* ------------------------------------------------- ultra_predictor.rs
\* Normalized box coordinates are integers in units of 1/GRID.
GRID == 4
\* CONFIDENCE_THRESHOLD = 0.5 and MAX_IOU = 0.5, in hundredths.
CONFIDENCE_THRESHOLD == 50
MAX_IOU == 50
\* EPS = 1.0e-7 is 1 / EPS_INV.
EPS_INV == 10000000
ULTRA_INPUT_WIDTH == 640
ULTRA_INPUT_HEIGHT == 480

\* An f32 confidence: a number of hundredths, or NaN.
F(v) == [nan |-> FALSE, v |-> v]
NaN == [nan |-> TRUE, v |-> 0]

\* A faulty AboveThreshold: the comparison is >=.
AboveThresholdInclusive(c) == ~c.nan /\ c.v >= CONFIDENCE_THRESHOLD

\* `*x > CONFIDENCE_THRESHOLD` on f32: false whenever x is NaN.
AboveThreshold(c) == ~c.nan /\ c.v > CONFIDENCE_THRESHOLD

\* a.1.partial_cmp(b.1): None when either side is NaN.
PartialCmpIsNone(a, b) == a.nan \/ b.nan

\* A faulty bbox_area: the test for a negative width or height is missing.
bbox_area_unchecked(bbox) == (bbox[4] - bbox[2]) * (bbox[3] - bbox[1])

\* bbox_area: width * height, 0.0 when either is negative.  In units of 1/GRID^2.
bbox_area(bbox) ==
    LET width == bbox[4] - bbox[2]
        height == bbox[3] - bbox[1]
    IN IF width < 0 \/ height < 0 THEN 0 ELSE width * height

Max2(a, b) == IF a > b THEN a ELSE b
Min2(a, b) == IF a < b THEN a ELSE b

\* The overlap box of iou().
OverlapBox(a, b) ==
    <<Max2(a[1], b[1]), Max2(a[2], b[2]), Min2(a[3], b[3]), Min2(a[4], b[4])>>

\* A faulty iou: EPS is left out of the denominator (0 / 0 is written 0 / 1).
iou_without_eps(a, b) ==
    LET overlap == bbox_area(OverlapBox(a, b))
        union == bbox_area(a) + bbox_area(b) - overlap
    IN [num |-> overlap * EPS_INV, den |-> IF union = 0 THEN 1 ELSE union * EPS_INV]

\* iou(a, b) = overlap / (area_a + area_b - overlap + EPS) as the fraction num /
\* den.  Areas are in units of 1/GRID^2 and EPS is 1 / EPS_INV, so numerator and
\* denominator are both multiplied by GRID^2 * EPS_INV.
iou(a, b) ==
    LET overlap == bbox_area(OverlapBox(a, b))
        union == bbox_area(a) + bbox_area(b) - overlap
    IN [num |-> overlap * EPS_INV, den |-> union * EPS_INV + GRID * GRID]

\* A faulty IouExceeds: the overlap is measured against the first box's own
\* area instead of the union.
IouExceedsOwnArea(a, b, max_iou) ==
    100 * bbox_area(OverlapBox(a, b)) > max_iou * bbox_area(a)

\* iou(a, b) > max_iou, with max_iou in hundredths:
\*   overlap / (area_a + area_b - overlap + EPS) > max_iou / 100
\* In units of 1/GRID^2 the EPS term is GRID^2 / EPS_INV, so with
\* d = 100 * overlap - max_iou * union (an integer) the test is
\* d > max_iou * GRID^2 / EPS_INV, which for an integer d is the test below.
IouExceeds(a, b, max_iou) ==
    LET overlap == bbox_area(OverlapBox(a, b))
        union == bbox_area(a) + bbox_area(b) - overlap
    IN 100 * overlap - max_iou * union > (max_iou * GRID * GRID) \div EPS_INV

\* A faulty NmsLoop: the candidate is compared with the box selected last only.
RECURSIVE NmsLoopLastOnly(_, _, _)
NmsLoopLastOnly(cands, selected, max_iou) ==
    IF cands = <<>> THEN selected
    ELSE LET c == cands[Len(cands)]
             rest == SubSeq(cands, 1, Len(cands) - 1)
             overlaps == selected # <<>> /\
                         IouExceeds(c[1], selected[Len(selected)][1], max_iou)
         IN NmsLoopLastOnly(rest, IF overlaps THEN selected ELSE Append(selected, c),
                            max_iou)

\* The loop of non_maximum_suppression: pop the last candidate (the most
\* confident one left), keep it unless it overlaps a selected box too much.
RECURSIVE NmsLoop(_, _, _)
NmsLoop(cands, selected, max_iou) ==
    IF cands = <<>> THEN selected
    ELSE LET c == cands[Len(cands)]
             rest == SubSeq(cands, 1, Len(cands) - 1)
             overlaps == \E i \in 1..Len(selected) :
                             IouExceeds(c[1], selected[i][1], max_iou)
         IN NmsLoop(rest, IF overlaps THEN selected ELSE Append(selected, c), max_iou)

non_maximum_suppression(sorted, max_iou) == NmsLoop(sorted, <<>>, max_iou)

\* bbox_arr.chunks(4): the flat box tensor cut into pieces of 4 (the last
\* piece is shorter when the length is no multiple of 4).
Chunks4(flat) ==
    [i \in 1..((Len(flat) + 3) \div 4) |->
        SubSeq(flat, 4 * i - 3, Min2(4 * i, Len(flat)))]

\* bboxes.iter().zip(confidences.iter()): stops at the shorter of the two.
Zip(bboxes, confs) ==
    [i \in 1..Min2(Len(bboxes), Len(confs)) |-> <<bboxes[i], confs[i]>>]

\* A faulty InsertSorted: the order is descending.
RECURSIVE InsertDescending(_, _)
InsertDescending(s, x) ==
    IF s = <<>> THEN <<x>>
    ELSE IF s[Len(s)][2].v >= x[2].v THEN Append(s, x)
    ELSE Append(InsertDescending(SubSeq(s, 1, Len(s) - 1), x), s[Len(s)])

\* sort_by(|a, b| a.1.partial_cmp(b.1).unwrap()): a stable ascending sort.
RECURSIVE InsertSorted(_, _)
InsertSorted(s, x) ==
    IF s = <<>> THEN <<x>>
    ELSE IF s[Len(s)][2].v <= x[2].v THEN Append(s, x)
    ELSE Append(InsertSorted(SubSeq(s, 1, Len(s) - 1), x), s[Len(s)])

\* A faulty SortAscending: the candidates are left in the order of the reply.
ReplyOrder(s) == s

RECURSIVE SortAscending(_)
SortAscending(s) ==
    IF s = <<>> THEN <<>>
    ELSE InsertSorted(SortAscending(SubSeq(s, 1, Len(s) - 1)), s[Len(s)])

\* The comparator unwraps None: a sort of two or more elements, one of them
\* NaN, panics.
SortPanics(s) ==
    \E i, j \in 1..Len(s) : i # j /\ PartialCmpIsNone(s[i][2], s[j][2])

\* A faulty TruncU32: the quotient is rounded to the nearest integer.
RoundU32(num, den) == IF num <= 0 THEN 0 ELSE (2 * num + den) \div (2 * den)

\* `as u32` of a non-negative quotient truncates; of a negative one gives 0.
TruncU32(num, den) == IF num <= 0 THEN 0 ELSE num \div den

\* get_bbox_pixel_locations(image_width, image_height, output_bbox).
get_bbox_pixel_locations(w, h, b) ==
    IF w * ULTRA_INPUT_HEIGHT > h * ULTRA_INPUT_WIDTH THEN
        \* scaled_width = ULTRA_RATIO * h, offset = (w - scaled_width) / 2
        LET sw == ULTRA_INPUT_WIDTH * h
            den == 2 * ULTRA_INPUT_HEIGHT * GRID
            off == GRID * (w * ULTRA_INPUT_HEIGHT - sw)
        IN <<TruncU32(2 * b[1] * sw + off, den), TruncU32(b[2] * h, GRID),
             TruncU32(2 * b[3] * sw + off, den), TruncU32(b[4] * h, GRID)>>
    ELSE IF w * ULTRA_INPUT_HEIGHT < h * ULTRA_INPUT_WIDTH THEN
        \* scaled_height = (1 / ULTRA_RATIO) * w, offset = (h - scaled_height) / 2
        LET sh == ULTRA_INPUT_HEIGHT * w
            den == 2 * ULTRA_INPUT_WIDTH * GRID
            off == GRID * (h * ULTRA_INPUT_WIDTH - sh)
        IN <<TruncU32(b[1] * w, GRID), TruncU32(2 * b[2] * sh + off, den),
             TruncU32(b[3] * w, GRID), TruncU32(2 * b[4] * sh + off, den)>>
    ELSE
        <<TruncU32(b[1] * w, GRID), TruncU32(b[2] * h, GRID),
          TruncU32(b[3] * w, GRID), TruncU32(b[4] * h, GRID)>>

map_bboxes_to_bbox_with_pixels(w, h, dets) ==
    [i \in 1..Len(dets) |-> <<get_bbox_pixel_locations(w, h, dets[i][1]), dets[i][2]>>]

\* post_process on the raw output [sessionOk, confs, flat]: confs is the
\* positive-class column of output 0, flat the row-major box tensor of output 1.
\* kind "panic": try_into().unwrap() on a chunk that is not 4 long, or the
\* sort comparator on a NaN.  nms is TRUE when non_maximum_suppression ran,
\* nmsIn is what it was given.
post_process(raw) ==
    LET chunks == Chunks4(raw.flat)
        ragged == \E i \in 1..Len(chunks) : Len(chunks[i]) # 4
        zipped == Zip(chunks, raw.confs)
        kept == SelectSeq(zipped, LAMBDA bc : AboveThreshold(bc[2]))
    IN IF ragged THEN [kind |-> "panic", nms |-> FALSE, nmsIn |-> <<>>, dets |-> <<>>]
       ELSE IF SortPanics(kept)
            THEN [kind |-> "panic", nms |-> FALSE, nmsIn |-> <<>>, dets |-> <<>>]
       ELSE [kind |-> "ok", nms |-> TRUE, nmsIn |-> SortAscending(kept),
             dets |-> non_maximum_suppression(SortAscending(kept), MAX_IOU)]

\* UltraPredictor::run on the resized image and the detector's reply: Err when
\* the session fails (the `?` on session.run), else post_process and the remap
\* with the width and height of the image it was given.
run(imageW, imageH, raw) ==
    IF ~raw.sessionOk
    THEN [kind |-> "err", nms |-> FALSE, nmsIn |-> <<>>, dets |-> <<>>]
    ELSE LET pp == post_process(raw)
         IN IF pp.kind # "ok" THEN pp
            ELSE [pp EXCEPT !.dets = map_bboxes_to_bbox_with_pixels(imageW, imageH, pp.dets)]

\* Detector replies the model draws from.
BoxA == <<0, 0, 4, 4>>
BoxB == <<0, 0, 4, 3>>
BoxC == <<2, 2, 4, 4>>
WellFormed == [sessionOk |-> TRUE, confs |-> <<F(60), F(90), F(40)>>,
               flat |-> BoxB \o BoxA \o BoxC]
SessionError == [sessionOk |-> FALSE, confs |-> <<>>, flat |-> <<>>]
CountMismatch == [sessionOk |-> TRUE, confs |-> <<F(90), F(80)>>, flat |-> BoxA]
RaggedBoxes == [sessionOk |-> TRUE, confs |-> <<F(90), F(80)>>,
                flat |-> BoxA \o <<0, 0>>]
NaNConfidence == [sessionOk |-> TRUE, confs |-> <<NaN, F(90)>>, flat |-> BoxC \o BoxA]
RawOutputs == {WellFormed, SessionError, CountMismatch, RaggedBoxes, NaNConfidence}

\* Malformed detector output: the two tensors disagree on the number of
\* candidates, or a confidence is NaN.
ShapeMismatch(raw) == 4 * Len(raw.confs) # Len(raw.flat)
HasNaN(raw) == \E i \in 1..Len(raw.confs) : raw.confs[i].nan
Malformed(raw) == raw.sessionOk /\ (ShapeMismatch(raw) \/ HasNaN(raw))

\* ------------------------------------------------------ image_queue.rs
\* A faulty QueueLockFree: the queue is touched without taking the guard.
LockIgnored == TRUE

\* self.queue.lock(): the caller gets the guard only while nobody holds it.
QueueLockFree == lock = "free"

\* A faulty VecPush: the item is inserted at the front.
VecPushFront(q, item) == <<item>> \o q

\* Vec::push: the item goes to the back.
VecPush(q, item) == Append(q, item)

\* A faulty is_full: len() >= QUEUE_SIZE.
is_full_at_capacity(q) == Len(q) >= QUEUE_SIZE

\* A faulty is_full: len() > QUEUE_SIZE + 1.
is_full_one_late(q) == Len(q) > QUEUE_SIZE + 1

\* is_full: len() > QUEUE_SIZE.
is_full(q) == Len(q) > QUEUE_SIZE

\* ------------------------------------------------------------- main.rs
\* A faulty AfterIsFull: the `return` of the full branch is missing.
AfterIsFullNoReturn(full) == "keep"

\* add_to_queue, lines 82-88: where the handler goes after is_full(): it
\* returns (503) when the queue is full, else it goes on to keep().
AfterIsFull(full) == IF full THEN "idle" ELSE "keep"

NoRun == [kind |-> "none", nms |-> FALSE, nmsIn |-> <<>>, dets |-> <<>>]
NoRaw == [sessionOk |-> FALSE, confs |-> <<>>, flat |-> <<>>]

\* The server right after main built the queue and spawned the task.
SysInit ==
    /\ queue = <<>>
    /\ lock = "free"
    /\ nextId = 1
    /\ pcP = [p \in Producers |-> "idle"]
    /\ idP = [p \in Producers |-> 0]
    /\ seenLen = [p \in Producers |-> -1]
    /\ retP = [p \in Producers |-> "none"]
    /\ resp = [p \in Producers |-> "none"]
    /\ pcS = "tick"
    /\ batch = <<>>
    /\ alive = TRUE
    /\ staged = {}
    /\ results = {}
    /\ last = [job |-> 0, outcome |-> "none", raw |-> NoRaw, res |-> NoRun, left |-> <<>>]
    /\ admitted = <<>>
    /\ snap = <<>>
    /\ drainCount = [j \in JobIds |-> 0]
    /\ procCount = [j \in JobIds |-> 0]
    /\ rmCalled = [j \in JobIds |-> FALSE]
    /\ procLog = <<>>
    /\ midDrain = FALSE

NoCalc == [fn |-> "none"]

Init == SysInit /\ calc = NoCalc

\* add_to_queue, lines 44-80: content type missing or unsupported, or an empty
\* file: 400 before the queue is touched.
Reject400(p) ==
    /\ alive
    /\ pcP[p] = "idle"
    /\ resp' = [resp EXCEPT ![p] = "400"]
    /\ seenLen' = [seenLen EXCEPT ![p] = -1]
    /\ retP' = [retP EXCEPT ![p] = "none"]
    /\ UNCHANGED <<queue, lock, nextId, pcP, idP, staged, admitted, midDrain, alive>>
    /\ UNCHANGED schedVars
    /\ UNCHANGED calc

\* add_to_queue, lines 82-88: data.queue.is_full() in one critical section, and
\* the `if` on what it returned: 503 "queue is full" and return, or go on.
IsFull(p) ==
    /\ alive
    /\ pcP[p] = "idle"
    /\ QueueLockFree
    /\ seenLen' = [seenLen EXCEPT ![p] = Len(queue)]
    /\ retP' = [retP EXCEPT ![p] = IF is_full(queue) THEN "true" ELSE "false"]
    /\ pcP' = [pcP EXCEPT ![p] = AfterIsFull(is_full(queue))]
    /\ resp' = [resp EXCEPT ![p] = IF is_full(queue) THEN "503" ELSE "none"]
    /\ midDrain' = (midDrain \/ pcS = "draining")
    /\ UNCHANGED <<queue, lock, nextId, idP, staged, admitted, alive>>
    /\ UNCHANGED schedVars
    /\ UNCHANGED calc

\* add_to_queue, lines 90-98, and the first line of push: temp_file.file.keep()
\* stores the upload, Uuid::new_v4() makes the id (before the lock is asked for).
Keep(p) ==
    /\ alive
    /\ pcP[p] = "keep"
    /\ nextId <= MaxJobs
    /\ idP' = [idP EXCEPT ![p] = nextId]
    /\ nextId' = nextId + 1
    /\ staged' = staged \cup {nextId}
    /\ pcP' = [pcP EXCEPT ![p] = "push"]
    /\ UNCHANGED <<queue, lock, seenLen, retP, resp, admitted, midDrain, alive>>
    /\ UNCHANGED schedVars
    /\ UNCHANGED calc

\* keep() fails: 500, nothing is queued.
KeepFail(p) ==
    /\ alive
    /\ pcP[p] = "keep"
    /\ pcP' = [pcP EXCEPT ![p] = "idle"]
    /\ resp' = [resp EXCEPT ![p] = "500"]
    /\ seenLen' = [seenLen EXCEPT ![p] = -1]
    /\ retP' = [retP EXCEPT ![p] = "none"]
    /\ UNCHANGED <<queue, lock, nextId, idP, staged, admitted, midDrain, alive>>
    /\ UNCHANGED schedVars
    /\ UNCHANGED calc

\* ImageQueue::push under the lock, then 201 with the id.
Push(p) ==
    /\ alive
    /\ pcP[p] = "push"
    /\ QueueLockFree
    /\ queue' = VecPush(queue, idP[p])
    /\ admitted' = Append(admitted, idP[p])
    /\ pcP' = [pcP EXCEPT ![p] = "idle"]
    /\ idP' = [idP EXCEPT ![p] = 0]
    /\ resp' = [resp EXCEPT ![p] = "201"]
    /\ seenLen' = [seenLen EXCEPT ![p] = -1]
    /\ retP' = [retP EXCEPT ![p] = "none"]
    /\ midDrain' = (midDrain \/ pcS = "draining")
    /\ UNCHANGED <<lock, nextId, staged, alive>>
    /\ UNCHANGED schedVars
    /\ UNCHANGED calc

\* ---------------------------------------------------- queue_processor.rs
\* interval.tick() fired and drain() found the Vec empty: lock, nothing to
\* collect, unlock, no iteration of the for loop, back to interval.tick().
DrainEmpty ==
    /\ alive
    /\ pcS = "tick"
    /\ QueueLockFree
    /\ queue = <<>>
    /\ UNCHANGED vars

\* interval.tick() fired and drain() took the lock of a Vec that holds items.
DrainLock ==
    /\ alive
    /\ pcS = "tick"
    /\ QueueLockFree
    /\ queue # <<>>
    /\ lock' = "sched"
    /\ snap' = queue
    /\ batch' = <<>>
    /\ pcS' = "draining"
    /\ UNCHANGED <<queue, nextId, staged, admitted, midDrain, alive, last,
                   drainCount, procCount, rmCalled, results, procLog>>
    /\ UNCHANGED prodVars
    /\ UNCHANGED calc

\* drain(..).collect(): the items move out of the Vec from the front, one by one,
\* while the guard is held.
DrainMove ==
    /\ alive
    /\ pcS = "draining"
    /\ queue # <<>>
    /\ batch' = Append(batch, Head(queue))
    /\ queue' = Tail(queue)
    /\ drainCount' = [drainCount EXCEPT ![Head(queue)] = @ + 1]
    /\ UNCHANGED <<lock, nextId, staged, admitted, midDrain, alive, pcS, last, snap,
                   procCount, rmCalled, results, procLog>>
    /\ UNCHANGED prodVars
    /\ UNCHANGED calc

\* The Vec is empty: the guard is dropped and the for loop starts.
DrainUnlock ==
    /\ alive
    /\ pcS = "draining"
    /\ queue = <<>>
    /\ lock' = "free"
    /\ pcS' = "loop"
    /\ snap' = <<>>
    /\ UNCHANGED <<queue, nextId, staged, admitted, midDrain, alive, batch, last,
                   drainCount, procCount, rmCalled, results, procLog>>
    /\ UNCHANGED prodVars
    /\ UNCHANGED calc

\* let res = ultra_predictor.run(&image) with image the upload resized to
\* ULTRA_INPUT_WIDTH x ULTRA_INPUT_HEIGHT (lines 44-49), per detector reply.
RunResult == [raw \in RawOutputs |-> run(ULTRA_INPUT_WIDTH, ULTRA_INPUT_HEIGHT, raw)]

\* The for loop takes the next item; pcS after an iteration that ended normally.
AfterItem(rest) == IF rest = <<>> THEN "tick" ELSE "loop"

\* One iteration that ends in remove_temp_file(image_location): the file is
\* removed, or fs::remove_file fails and process::exit(-1) is called.
\* outcome names the branch of the loop body; created says whether File::create
\* made the result file on the way.
Iteration(outcome, raw, res, created, rmOk) ==
    LET item == Head(batch) IN
    /\ alive
    /\ pcS = "loop"
    /\ batch # <<>>
    /\ batch' = Tail(batch)
    /\ procCount' = [procCount EXCEPT ![item] = @ + 1]
    /\ procLog' = Append(procLog, item)
    /\ last' = [job |-> item, outcome |-> outcome, raw |-> raw, res |-> res,
                left |-> Tail(batch)]
    /\ results' = IF created THEN results \cup {item} ELSE results
    /\ rmCalled' = [rmCalled EXCEPT ![item] = TRUE]
    /\ staged' = IF rmOk THEN staged \ {item} ELSE staged
    /\ alive' = rmOk
    /\ pcS' = AfterItem(Tail(batch))
    /\ UNCHANGED <<queue, lock, nextId, admitted, midDrain, snap, drainCount>>
    /\ UNCHANGED prodVars
    /\ UNCHANGED calc

\* Reader::open fails (lines 25-32).
ProcessOpenFail == \E rmOk \in BOOLEAN :
    Iteration("open", NoRaw, NoRun, FALSE, rmOk)

\* image_buf.decode() fails (lines 35-42).
ProcessDecodeFail == \E rmOk \in BOOLEAN :
    Iteration("decode", NoRaw, NoRun, FALSE, rmOk)

\* ultra_predictor.run(&image).unwrap() (line 49) on an Err, or a panic inside
\* run: the spawned task unwinds and ends (the runtime catches the panic of a
\* task).  The rest of the batch is dropped with the iterator; no temp file is
\* removed; no guard is held, so the HTTP workers go on.
ProcessRunPanics == \E raw \in RawOutputs :
    LET item == Head(batch)
        res == RunResult[raw] IN
    /\ alive
    /\ pcS = "loop"
    /\ batch # <<>>
    /\ res.kind # "ok"
    /\ batch' = <<>>
    /\ procCount' = [procCount EXCEPT ![item] = @ + 1]
    /\ procLog' = Append(procLog, item)
    /\ last' = [job |-> item, outcome |-> "inference", raw |-> raw, res |-> res,
                left |-> Tail(batch)]
    /\ pcS' = "panicked"
    /\ UNCHANGED <<queue, lock, nextId, staged, admitted, midDrain, alive, snap,
                   drainCount, rmCalled, results>>
    /\ UNCHANGED prodVars
    /\ UNCHANGED calc

\* run returned Ok.  Then File::create fails (lines 52-59), or to_writer fails
\* (64-71), or flush fails (73-80), or all succeed (82).  From File::create on
\* the result file exists; no branch removes it.
ProcessRunOk == \E raw \in RawOutputs, rmOk \in BOOLEAN,
                   out \in {"create", "write", "flush", "ok"} :
    LET res == RunResult[raw] IN
    /\ pcS = "loop"
    /\ res.kind = "ok"
    /\ Iteration(out, raw, res, out # "create", rmOk)

Next ==
    \/ \E p \in Producers : Reject400(p)
    \/ \E p \in Producers : IsFull(p)
    \/ \E p \in Producers : Keep(p)
    \/ \E p \in Producers : KeepFail(p)
    \/ \E p \in Producers : Push(p)
    \/ DrainEmpty
    \/ DrainLock
    \/ DrainMove
    \/ DrainUnlock
    \/ ProcessOpenFail
    \/ ProcessDecodeFail
    \/ ProcessRunPanics
    \/ ProcessRunOk

Spec == Init /\ [][Next]_vars

\* ------------------------------------- the remap of a box, taken on its own
\* raw_image.resize_to_fill(ULTRA_INPUT_WIDTH, ULTRA_INPUT_HEIGHT, Triangle)
\* (queue_processor.rs lines 44-47): the upload is scaled and cropped to exactly
\* the detector's input size, whatever its own size was.
resize_to_fill(w, h) == <<ULTRA_INPUT_WIDTH, ULTRA_INPUT_HEIGHT>>

\* Lines 44-49 of the loop body on an upload of w x h pixels: the image is
\* resized, and run is given the resized image.
RunOnUpload(w, h, raw) ==
    LET image == resize_to_fill(w, h)
    IN run(image[1], image[2], raw)

\* Sizes of uploaded images: the detector's own size, twice that size, a wider
\* one, two narrower ones.
UploadSizes == {<<640, 480>>, <<1280, 960>>, <<1280, 480>>, <<480, 640>>, <<300, 300>>}

\* Normalized boxes on the grid, x1 <= x2 and y1 <= y2.
GridBoxes ==
    {b \in (0..GRID) \X (0..GRID) \X (0..GRID) \X (0..GRID) : b[1] <= b[3] /\ b[2] <= b[4]}

\* The detector's reply with the single candidate b, confidence 0.9.
OneCandidate(b) == [sessionOk |-> TRUE, confs |-> <<F(90)>>, flat |-> b]

InitRemap ==
    /\ SysInit
    /\ calc \in {[fn |-> "none", w |-> d[1], h |-> d[2], box |-> b, out |-> <<>>] :
                    d \in UploadSizes, b \in GridBoxes}

\* get_bbox_pixel_locations is called on the box with the size of the image.
RemapStep ==
    /\ calc.fn = "none"
    /\ calc' = [calc EXCEPT !.fn = "remap",
                            !.out = get_bbox_pixel_locations(calc.w, calc.h, calc.box)]
    /\ UNCHANGED sysVars

\* The loop body runs the detector on an upload of that size, the detector
\* answering with that box; out is the list of (pixel box, confidence).
DetectStep ==
    /\ calc.fn = "none"
    /\ calc' = [calc EXCEPT !.fn = "detect",
                            !.out = RunOnUpload(calc.w, calc.h, OneCandidate(calc.box)).dets]
    /\ UNCHANGED sysVars

NextRemap == RemapStep \/ DetectStep

SpecRemap == InitRemap /\ [][NextRemap]_vars

\* ------------------------------------- post_process, taken on its own
\* A box without area.
BoxD == <<1, 1, 1, 3>>
TestBoxes == {BoxA, BoxB, BoxC, BoxD}
\* Confidences at the threshold, just above it and well above it.
TestConfs == {F(50), F(51), F(60), F(90)}

\* Lists of at most MaxCands candidates (box, confidence).
CandidateLists == UNION {[1..n -> TestBoxes \X TestConfs] : n \in 0..MaxCands}

\* The detector's reply that holds the candidates of the list: the confidences
\* in output 0, the boxes row by row in output 1.
ReplyOf(cands) ==
    [sessionOk |-> TRUE,
     confs |-> [i \in 1..Len(cands) |-> cands[i][2]],
     flat |-> [k \in 1..(4 * Len(cands)) |-> cands[(k + 3) \div 4][1][((k - 1) % 4) + 1]]]

InitPost ==
    /\ SysInit
    /\ calc \in {[fn |-> "none", cands |-> c, out |-> NoRun, again |-> <<>>] :
                    c \in CandidateLists}

\* post_process is called on the reply.
PostProcessStep ==
    /\ calc.fn = "none"
    /\ calc' = [calc EXCEPT !.fn = "post_process",
                            !.out = post_process(ReplyOf(calc.cands))]
    /\ UNCHANGED sysVars

\* non_maximum_suppression is called once more, on the list it returned.
NmsAgainStep ==
    /\ calc.fn = "post_process"
    /\ calc.out.kind = "ok"
    /\ calc' = [calc EXCEPT !.fn = "nms_again",
                            !.again = non_maximum_suppression(calc.out.dets, MAX_IOU)]
    /\ UNCHANGED sysVars

NextPost == PostProcessStep \/ NmsAgainStep

SpecPost == InitPost /\ [][NextPost]_vars

\* ---------------------------------- iou and bbox_area, taken on their own
\* Every box with coordinates 0..MaxCoord, the ill-defined ones (x2 < x1 or
\* y2 < y1) among them.
CoordBoxes == (0..MaxCoord) \X (0..MaxCoord) \X (0..MaxCoord) \X (0..MaxCoord)

InitIou ==
    /\ SysInit
    /\ calc \in {[fn |-> "none", a |-> a, b |-> b, area |-> 0, out |-> [num |-> 0, den |-> 0]] :
                    a \in CoordBoxes, b \in CoordBoxes}

\* bbox_area is called on the first box.
AreaStep ==
    /\ calc.fn = "none"
    /\ calc' = [calc EXCEPT !.fn = "bbox_area", !.area = bbox_area(calc.a)]
    /\ UNCHANGED sysVars

\* iou is called on the two boxes.
IouStep ==
    /\ calc.fn = "none"
    /\ calc' = [calc EXCEPT !.fn = "iou", !.out = iou(calc.a, calc.b)]
    /\ UNCHANGED sysVars

NextIou == AreaStep \/ IouStep

SpecIou == InitIou /\ [][NextIou]_vars

\* ------------------------------------------------------------- helpers
Range(f) == {f[i] : i \in DOMAIN f}
IsPrefix(s, t) == Len(s) <= Len(t) /\ SubSeq(t, 1, Len(s)) = s
IsSuffix(s, t) == Len(s) <= Len(t) /\ SubSeq(t, Len(t) - Len(s) + 1, Len(t)) = s

\* The per-job failures of the loop body other than the removal of the temp file.
PerJobFailures == {"open", "decode", "inference", "create", "write", "flush"}

\* ---------------------------------------------------------------- claims

\* C1: a failure on job N (open or decode failure, inference failure, result
\* file create, write or flush failure) does not keep job N+1 of the same drain
\* from being processed: while the process lives, once an item has ended in such
\* a failure and the next item of its drain has not been taken yet, the for loop
\* is still running and that item is the next it takes.
C1_FailureDoesNotBlockNext ==
    (/\ alive
     /\ last.outcome \in PerJobFailures
     /\ last.left # <<>>
     /\ procCount[Head(last.left)] = 0)
    => (pcS = "loop" /\ batch = last.left)

\* C2: the failure to remove a temp file is the only error that halts the
\* system: the queue processor never stops for another reason, and the process
\* has only exited when remove_temp_file was called on the last item and its
\* file is still there.
C2_OnlyRemovalFailureHalts ==
    /\ pcS # "panicked"
    /\ ~alive => (rmCalled[last.job] /\ last.job \in staged)

\* C3: every item the for loop has taken had remove_temp_file called on its
\* image_location, whatever the outcome, before the loop went on.
C3_TempFileRemovalAlwaysCalled ==
    \A j \in JobIds : procCount[j] > 0 => rmCalled[j]

\* C4: every job is returned by at most one drain and goes through the loop body
\* exactly once: never twice, and, while the process lives, every job a drain
\* returned that the for loop is not still holding has been through it once.
C4_ProcessedExactlyOnce ==
    \A j \in JobIds :
        /\ drainCount[j] <= 1
        /\ procCount[j] <= 1
        /\ (alive /\ drainCount[j] = 1 /\ j \notin Range(batch)) => procCount[j] = 1

\* C5: drain is atomic with respect to push and is_full: no push and no is_full
\* runs inside a drain; while drain runs, what it has collected followed by what
\* is left in the Vec is the queue as it was when drain took the lock (so it
\* returns exactly the jobs present at that instant, and a job pushed later is
\* in none of them); no job is returned by two drains, and every pushed job is
\* either still queued or was returned by exactly one drain.
C5_DrainAtomic ==
    /\ ~midDrain
    /\ pcS = "draining" => (lock = "sched" /\ batch \o queue = snap)
    /\ \A j \in JobIds : drainCount[j] <= 1
    /\ \A i \in 1..Len(admitted) :
          (admitted[i] \in Range(queue)) # (drainCount[admitted[i]] = 1)

\* C5 witness: a drain is half done (it has collected a job, another is still
\* in the Vec) while an upload worker stands right before its push.
C5_Witness ==
    /\ pcS = "draining"
    /\ batch # <<>>
    /\ queue # <<>>
    /\ \E p \in Producers : pcP[p] = "push"

\* C6: the queue is FIFO: the Vec holds the jobs pushed last, in push order; the
\* for loop has taken the jobs pushed first, in push order; and, unless the task
\* panicked and dropped its batch, the jobs taken, the jobs of the drain still
\* to take and the jobs queued are, in this order, the jobs in push order.
C6_Fifo ==
    /\ IsSuffix(queue, admitted)
    /\ IsPrefix(procLog, admitted)
    /\ pcS # "panicked" => procLog \o batch \o queue = admitted

\* C6 witness: two upload workers pushed in the order opposite to the one their
\* ids were made in, and the for loop has taken both jobs from one drain.
C6_Witness ==
    /\ Len(procLog) >= 2
    /\ procLog[1] > procLog[2]
    /\ last.job = procLog[2]
    /\ pcS = "tick"

\* C7 as stated: a request that finds the queue holding QUEUE_SIZE jobs (or
\* more) is rejected with 503 "queue is full" and push is not called.
C7_RejectedAtCapacity ==
    \A p \in Producers :
        seenLen[p] >= QUEUE_SIZE =>
            (resp[p] = "503" /\ pcP[p] = "idle" /\ idP[p] = 0)

\* C7 amended: a request whose is_full call finds more than QUEUE_SIZE jobs is
\* rejected with 503 "queue is full" without blocking, and push is not called
\* for it; a request that finds QUEUE_SIZE jobs or fewer is not rejected as full.
C7_RejectedAboveCapacity ==
    \A p \in Producers :
        /\ seenLen[p] > QUEUE_SIZE =>
               (resp[p] = "503" /\ pcP[p] = "idle" /\ idP[p] = 0)
        /\ (seenLen[p] >= 0 /\ seenLen[p] <= QUEUE_SIZE) =>
               (resp[p] # "503" /\ pcP[p] \in {"keep", "push"})

\* C7 witness: a request found QUEUE_SIZE + 1 jobs and got 503, while the
\* other worker's request, which found QUEUE_SIZE jobs, is about to push.
C7_Witness ==
    \E p, q \in Producers :
        /\ seenLen[p] = QUEUE_SIZE + 1
        /\ resp[p] = "503"
        /\ seenLen[q] = QUEUE_SIZE
        /\ pcP[q] = "push"

\* C8: is_full returns true exactly when the length it read is strictly greater
\* than QUEUE_SIZE.
C8_IsFullIffAbove ==
    \A p \in Producers :
        seenLen[p] >= 0 => ((retP[p] = "true") <=> (seenLen[p] > QUEUE_SIZE))

\* C8 witness: is_full returned false on a queue of QUEUE_SIZE jobs and true
\* on a queue of QUEUE_SIZE + 1 jobs.
C8_Witness ==
    \E p, q \in Producers :
        /\ seenLen[p] = QUEUE_SIZE /\ retP[p] = "false"
        /\ seenLen[q] = QUEUE_SIZE + 1 /\ retP[q] = "true"

\* C9: a failed job never produces a result file: after an item ended in a
\* per-job failure (and its temp file was removed, so that the process lives)
\* there is no ./results/<id>.json for it.
C9_FailedJobHasNoResultFile ==
    (alive /\ last.outcome \in PerJobFailures) => last.job \notin results

\* C10: malformed detector output (the tensors disagree on the number of
\* candidates, or a confidence is NaN) is an inference failure of that job: the
\* item ends as an inference failure, non_maximum_suppression is not run on it
\* and no result file is written for it, in every run in which the process
\* lives.  (What follows an inference failure, the cleanup and the next item,
\* is C1 and C3.)
C10_MalformedOutputIsInferenceFailure ==
    (alive /\ Malformed(last.raw)) =>
        /\ last.outcome = "inference"
        /\ ~last.res.nms
        /\ last.job \notin results

\* C11: the pixel box of every Detection written for a job is in the pixel
\* coordinates of the job's source image: it is the detector's box remapped
\* with the width and height of the upload (so with the offset branches when the
\* upload's ratio is not 640:480).
C11_PixelBoxInSourceCoords ==
    calc.fn = "detect" =>
        /\ Len(calc.out) = 1
        /\ calc.out[1][1] = get_bbox_pixel_locations(calc.w, calc.h, calc.box)

\* r is the non-negative quotient num / den cut down to an integer: r <= num /
\* den < r + 1.
IsTruncationOf(r, num, den) == r * den <= num /\ num < (r + 1) * den

\* C17: get_bbox_pixel_locations maps a normalized box by three cases.  With
\* ratio = 640 / 480: for an image wider than the ratio, x is x_norm * (ratio *
\* h) + (w - ratio * h) / 2 and y is y_norm * h; for a narrower one, x is x_norm
\* * w and y is y_norm * (w / ratio) + (h - w / ratio) / 2; for an image of that
\* ratio, x is x_norm * w and y is y_norm * h; and each coordinate returned is
\* that value truncated to an integer.  (x_norm is box[k] / GRID; both sides of
\* each comparison are multiplied by the denominators.)
C17_RemapThreeCases ==
    calc.fn = "remap" =>
        LET w == calc.w
            h == calc.h
            b == calc.box
            r == calc.out
            wider == w * ULTRA_INPUT_HEIGHT > ULTRA_INPUT_WIDTH * h
            narrower == w * ULTRA_INPUT_HEIGHT < ULTRA_INPUT_WIDTH * h
            Plain(k, size) == IsTruncationOf(r[k], b[k] * size, GRID)
            Offset(k, scaledNum, size, scaledDen) ==
                \* b[k]/GRID * scaledNum/scaledDen + (size - scaledNum/scaledDen) / 2
                IsTruncationOf(r[k],
                               2 * b[k] * scaledNum + GRID * (size * scaledDen - scaledNum),
                               2 * GRID * scaledDen)
        IN /\ wider =>
                /\ \A k \in {1, 3} : Offset(k, ULTRA_INPUT_WIDTH * h, w, ULTRA_INPUT_HEIGHT)
                /\ \A k \in {2, 4} : Plain(k, h)
           /\ narrower =>
                /\ \A k \in {1, 3} : Plain(k, w)
                /\ \A k \in {2, 4} : Offset(k, ULTRA_INPUT_HEIGHT * w, h, ULTRA_INPUT_WIDTH)
           /\ (~wider /\ ~narrower) =>
                /\ \A k \in {1, 3} : Plain(k, w)
                /\ \A k \in {2, 4} : Plain(k, h)

\* C17 witness: the remap ran on a narrower image (300x300) with the box (1/GRID,
\* 1/GRID, 1, 1): x is plain, 300 / GRID, and y has the offset 37.5 and is no
\* integer, so it was cut down: y2 = 225 + 37.5 = 262.5 is returned as 262.
C17_Witness ==
    /\ calc.fn = "remap"
    /\ calc.w = 300 /\ calc.h = 300
    /\ calc.box = <<1, 1, GRID, GRID>>
    /\ calc.out[1] * GRID = 300
    /\ calc.out[2] * 2 * GRID * ULTRA_INPUT_WIDTH < 2 * ULTRA_INPUT_HEIGHT * 300
                                                    + GRID * (300 * ULTRA_INPUT_WIDTH - ULTRA_INPUT_HEIGHT * 300)
    /\ calc.out[4] = 262

\* IoU above one half, by the fraction iou returns.
IouAboveHalf(a, b) == 2 * iou(a, b).num > iou(a, b).den

\* C12: the list post_process returns never holds two boxes whose IoU is above
\* the suppression threshold 0.5, for every list of candidates.
C12_NoOverlappingPairSurvives ==
    calc.fn = "post_process" =>
        \A i, j \in 1..Len(calc.out.dets) :
            i # j => ~IouAboveHalf(calc.out.dets[i][1], calc.out.dets[j][1])

\* C12 witness: of three candidates above the confidence threshold, one was
\* suppressed and two boxes that overlap (by less than the threshold) are left.
C12_Witness ==
    /\ calc.fn = "post_process"
    /\ Len(calc.out.nmsIn) = 3
    /\ Len(calc.out.dets) = 2
    /\ iou(calc.out.dets[1][1], calc.out.dets[2][1]).num > 0

\* C13: non_maximum_suppression is idempotent: run on its own output with the
\* same threshold it returns the same set of (box, confidence) pairs.
C13_NmsIdempotent ==
    calc.fn = "nms_again" => Range(calc.again) = Range(calc.out.dets)

\* C13 witness: the second run was given two boxes that overlap, left after the
\* first run suppressed a third.
C13_Witness ==
    /\ calc.fn = "nms_again"
    /\ Len(calc.out.nmsIn) = 3
    /\ Len(calc.out.dets) = 2
    /\ calc.out.dets[1][1] = BoxC
    /\ calc.out.dets[2][1] = BoxA

\* Two candidates with the same box and different confidences, both above the
\* confidence threshold.
SameBoxTwice ==
    /\ calc.fn = "post_process"
    /\ Len(calc.cands) = 2
    /\ calc.cands[1][1] = calc.cands[2][1]
    /\ calc.cands[1][2] # calc.cands[2][2]
    /\ Len(calc.out.nmsIn) = 2

\* The more confident of the two candidates.
HigherOfTwo ==
    IF calc.cands[1][2].v > calc.cands[2][2].v THEN calc.cands[1] ELSE calc.cands[2]

\* C14 as stated: NMS on two boxes with the same coordinates and different
\* confidences returns only the more confident one, for every such pair.
C14_SameBoxKeepsHigher ==
    SameBoxTwice => calc.out.dets = <<HigherOfTwo>>

\* C14 amended: NMS on two boxes with the same coordinates and different
\* confidences returns only the more confident one when the box has a positive
\* area; two copies of a box without area have IoU 0 and are both returned.
C14_SameBoxWithAreaKeepsHigher ==
    SameBoxTwice =>
        /\ bbox_area(calc.cands[1][1]) > 0 => calc.out.dets = <<HigherOfTwo>>
        /\ bbox_area(calc.cands[1][1]) = 0 => Len(calc.out.dets) = 2

\* C14 witness: the less confident copy of a box with area came first in the
\* reply and was suppressed.
C14_Witness ==
    /\ SameBoxTwice
    /\ bbox_area(calc.cands[1][1]) > 0
    /\ calc.cands[1][2].v < calc.cands[2][2].v
    /\ calc.out.dets = <<calc.cands[2]>>

\* C15: the confidence filter is exclusive: what reaches the sort and NMS is
\* exactly the candidates whose confidence is strictly greater than 0.5; a
\* candidate of confidence 0.5 is dropped, one of confidence 0.51 is kept.
C15_ConfidenceFilterExclusive ==
    calc.fn = "post_process" =>
        LET kept == Range(calc.out.nmsIn) IN
        \A i \in 1..Len(calc.cands) :
            /\ calc.cands[i] \in kept <=> calc.cands[i][2].v > 50
            /\ calc.cands[i][2].v = 50 => calc.cands[i] \notin kept
            /\ calc.cands[i][2].v = 51 => calc.cands[i] \in kept

\* C15 witness: the same box came with confidence 0.5 and with confidence 0.51,
\* and only the latter is returned.
C15_Witness ==
    /\ calc.fn = "post_process"
    /\ calc.cands = <<(<<BoxA, F(50)>>), (<<BoxA, F(51)>>)>>
    /\ calc.out.dets = <<(<<BoxA, F(51)>>)>>

\* A box of positive width and height.
PositiveSize(a) == a[1] < a[3] /\ a[2] < a[4]

\* An ill-defined box: the bottom-right corner is left of or above the top-left.
Degenerate(a) == a[3] < a[1] \/ a[4] < a[2]

\* Two well-defined boxes that lie apart (or only touch) along an axis.
NoSpatialOverlap(a, b) ==
    /\ ~Degenerate(a)
    /\ ~Degenerate(b)
    /\ (a[3] <= b[1] \/ b[3] <= a[1] \/ a[4] <= b[2] \/ b[4] <= a[2])

\* C16 as stated: IoU(a, a) = 1 for every box a of positive width and height,
\* and IoU(a, b) = 0 for every two boxes with no spatial overlap.
C16_IouSelfIsOne ==
    calc.fn = "iou" =>
        /\ (calc.a = calc.b /\ PositiveSize(calc.a)) => calc.out.num = calc.out.den
        /\ NoSpatialOverlap(calc.a, calc.b) => calc.out.num = 0

\* C16 amended: IoU(a, a) = area / (area + EPS) for every box a of positive
\* width and height, a value below 1 (the denominator is the numerator plus the
\* EPS term), and IoU(a, b) = 0 for every two boxes with no spatial overlap.
C16_IouSelfIsAreaOverAreaPlusEps ==
    calc.fn = "iou" =>
        /\ (calc.a = calc.b /\ PositiveSize(calc.a)) =>
              /\ calc.out.num = (calc.a[3] - calc.a[1]) * (calc.a[4] - calc.a[2]) * EPS_INV
              /\ calc.out.den = calc.out.num + GRID * GRID
              /\ calc.out.num < calc.out.den
        /\ NoSpatialOverlap(calc.a, calc.b) => calc.out.num = 0

\* C16 witness: iou was called on two copies of the box (0, 0, 1, 1) / GRID.
C16_Witness ==
    /\ calc.fn = "iou"
    /\ calc.a = <<0, 0, 1, 1>>
    /\ calc.b = calc.a
    /\ calc.out.num = EPS_INV

\* C18: a degenerate box (x2 < x1 or y2 < y1 or both) has area 0; for every two
\* boxes, degenerate or not, iou divides by a positive number and returns a
\* value in [0, 1]; and the IoU of a degenerate box with any box is 0.
C18_DegenerateBoxIsHarmless ==
    /\ (calc.fn = "bbox_area" /\ Degenerate(calc.a)) => calc.area = 0
    /\ calc.fn = "iou" =>
          /\ calc.out.den > 0
          /\ 0 <= calc.out.num
          /\ calc.out.num <= calc.out.den
          /\ (Degenerate(calc.a) \/ Degenerate(calc.b)) => calc.out.num = 0

\* C18 witness: iou was called on a box that is degenerate on both axes and a
\* box of positive size that covers the region between its corners.
C18_Witness ==
    /\ calc.fn = "iou"
    /\ calc.a = <<MaxCoord, MaxCoord, 0, 0>>
    /\ calc.b = <<0, 0, MaxCoord, MaxCoord>>
    /\ calc.out.num = 0
    /\ calc.out.den = MaxCoord * MaxCoord * EPS_INV + GRID * GRID

\* Upload workers that got past is_full and have not pushed yet.
PastIsFull == {p \in Producers : pcP[p] \in {"keep", "push"}}

\* C19: with is_full and push in two critical sections, P upload workers and any
\* interleaving with drains, the queue never holds more than QUEUE_SIZE + P
\* jobs, and a push is never refused: a worker that stands before its push can
\* do it whenever the lock is free, however long the queue is.  (The second
\* conjunct is the reason for the first: the jobs queued and the workers that
\* got past is_full together never number more than QUEUE_SIZE + P.)
C19_LengthAtMostCapacityPlusProducers ==
    /\ Len(queue) <= QUEUE_SIZE + Cardinality(Producers)
    /\ Len(queue) + Cardinality(PastIsFull) <= QUEUE_SIZE + Cardinality(Producers)
    /\ \A p \in Producers :
          (alive /\ pcP[p] = "push" /\ QueueLockFree) => ENABLED Push(p)

\* C19 witness: the queue holds QUEUE_SIZE + P jobs, P more than its capacity:
\* every upload worker read a length of at most QUEUE_SIZE before any of them
\* pushed.
C19_Witness ==
    /\ Len(queue) = QUEUE_SIZE + Cardinality(Producers)
    /\ \A p \in Producers : resp[p] = "201"

\* C20: every job push admitted is eventually drained, whatever the outcomes of
\* the jobs before it (inference failures included), so a full queue becomes
\* non-full again.  Only process_queue_task drains, so for this the task must
\* still be running whenever the process lives and a job is queued: a job
\* queued while the task has ended stays queued in every continuation.
C20_QueuedJobHasLiveScheduler ==
    (alive /\ queue # <<>>) => pcS # "panicked"

\* The candidates of the reply that pass the confidence filter.
Filtered == {calc.cands[i] : i \in {k \in 1..Len(calc.cands) : calc.cands[k][2].v > 50}}

\* C21: the detection list is ordered by non-increasing confidence; when at
\* least one candidate passes the confidence filter the list is not empty and
\* its first element is a candidate of maximal confidence; and every filtered
\* candidate that is not in the list has IoU above the threshold 0.5 with a
\* listed box of greater or equal confidence.
C21_OrderedGreedySelection ==
    calc.fn = "post_process" =>
        LET dets == calc.out.dets IN
        /\ \A i \in 1..(Len(dets) - 1) : dets[i][2].v >= dets[i + 1][2].v
        /\ Filtered # {} =>
              /\ dets # <<>>
              /\ dets[1] \in Filtered
              /\ \A c \in Filtered : c[2].v <= dets[1][2].v
        /\ \A c \in Filtered \ Range(dets) :
              \E i \in 1..Len(dets) :
                  /\ dets[i][2].v >= c[2].v
                  /\ IouAboveHalf(c[1], dets[i][1])

\* C21 witness: the reply held, in this order, a box at confidence 0.6, a box
\* overlapping it by more than half at 0.51 and a box apart from both at 0.9:
\* the list is the third, then the first, and the second was suppressed.
C21_Witness ==
    /\ calc.fn = "post_process"
    /\ calc.cands = <<(<<BoxA, F(60)>>), (<<BoxB, F(51)>>), (<<BoxD, F(90)>>)>>
    /\ calc.out.dets = <<(<<BoxD, F(90)>>), (<<BoxA, F(60)>>)>>

====
